---------------------------- MODULE Spec2Model ----------------------------
(***************************************************************************)
(* CCMHA schedule monitor: the change detector (ccmha_change_detector.py). *)
(*                                                                         *)
(* Six specifications share this module:                                   *)
(*   SpecKey     create_schedule_key applied to bounded pairs of entries   *)
(*   SpecHash    create_schedule_hash applied to a bounded collection and  *)
(*               to a permutation of it                                    *)
(*   SpecDiff    detect_changes applied to bounded pairs of collections    *)
(*   SpecFilter  filter_next_n_days applied to bounded collections,        *)
(*               horizons and reference instants                           *)
(*   Spec        the detector's main() as a step machine over the files    *)
(*               it reads and writes, cycle after cycle                    *)
(*   SpecMonitor the change monitor (ccmha_change_monitor.py) running the  *)
(*               scraper, the detector and the notifier, run after run     *)
(***************************************************************************)
EXTENDS Integers, Sequences, FiniteSets, TLC

VARIABLES
    \* SpecDiff
    old_items,      \* first argument of detect_changes
    new_items,      \* second argument of detect_changes
    changes,        \* detect_changes(old_items, new_items)
    rchanges,       \* detect_changes(new_items, old_items)
    \* SpecFilter
    items,          \* argument of filter_next_n_days
    days,           \* its horizon
    now,            \* datetime.now() inside the call
    filtered,       \* its outcome
    \* Spec
    clock,          \* wall clock
    current_csv,    \* amherst_stadium_schedule.csv
    snapshot_csv,   \* schedule_snapshot_7day.csv
    changes_json,   \* schedule_changes.json
    pc,             \* position of main()
    current_items,  \* main's local: outcome of the first filter call
    snapshot_items, \* main's local: outcome of the second filter call
    report,         \* main's local: changes
    exit_code,      \* exit status of the last finished detector process
    cycle,          \* what the running cycle has observed (history)
    \* SpecKey, SpecHash
    args,           \* the arguments of the function applied
    result,         \* what it returned
    \* SpecMonitor
    mon,            \* the change monitor's run: position, stages, results
    unsent          \* reports the detector handed over (exit 1), not yet emailed

diffVars == <<old_items, new_items, changes, rchanges>>
filterVars == <<items, days, now, filtered>>
cycleVars == <<clock, current_csv, snapshot_csv, changes_json, pc,
               current_items, snapshot_items, report, exit_code, cycle>>
auxVars == <<args, result>>
monVars == <<mon, unsent>>
vars == <<diffVars, filterVars, cycleVars, auxVars, monVars>>

(***************************************************************************)
(* Bounds of the model.                                                    *)
(***************************************************************************)
MaxLen == 2         \* longest collection handed to detect_changes / the filter
MaxRows == 2        \* most rows the scraper writes to the current CSV
MaxHorizon == 2     \* largest CHANGE_MONITOR_DAYS tried
MaxDay == 3         \* last calendar day the clock reaches
MonitorDays == 1    \* CHANGE_MONITOR_DAYS in the environment of the cycles

(***************************************************************************)
(* Values of a record's fields.  pandas.read_csv yields a str for a cell   *)
(* with text and float('nan') for an empty cell; dict.get on a key the     *)
(* record lacks yields None.                                               *)
(***************************************************************************)
S(text) == [kind |-> "str", s |-> text]
NaN == [kind |-> "nan", s |-> "nan"]
None == [kind |-> "none", s |-> "None"]

\* str(v) as an f-string renders it
Str(v) == v.s

\* Python's a != b: a nan is unequal to everything, itself included
PyNe(a, b) == IF a.kind = "nan" \/ b.kind = "nan" THEN TRUE ELSE a # b

\* Python's truth value of v: '' and None are falsy, nan (a non-zero float) is truthy
Truthy(v) == ~(v = S("") \/ v.kind = "none")

Entry(date, start_time, end_time, type, league, team, venue) ==
    [date |-> date, start_time |-> start_time, end_time |-> end_time,
     type |-> type, league |-> league, team |-> team, venue |-> venue]

Range(seq) == {seq[i] : i \in DOMAIN seq}
SeqsUpTo(D, n) == UNION {[1..k -> D] : k \in 0..n}

\* The orders in which iterating a Python set can yield its elements
Orderings(T) ==
    {f \in [1..Cardinality(T) -> T] :
        \A i, j \in 1..Cardinality(T) : i # j => f[i] # f[j]}

(***************************************************************************)
(* Diff engine                                                             *)
(***************************************************************************)
create_schedule_key_no_league(item) ==
    Str(item.date) \o "_" \o Str(item.start_time) \o "_" \o Str(item.type)
create_schedule_key(item) ==
    Str(item.date) \o "_" \o Str(item.start_time) \o "_" \o
    Str(item.type) \o "_" \o Str(item.league)

\* {create_schedule_key(item): item for item in items}: a later item
\* replaces an earlier one under the same key
KeyMap_first_wins(seq) ==
    [k \in {create_schedule_key(seq[i]) : i \in DOMAIN seq} |->
        LET idx == {i \in DOMAIN seq : create_schedule_key(seq[i]) = k}
            first == CHOOSE i \in idx : \A j \in idx : i <= j
        IN seq[first]]
KeyMap(seq) ==
    [k \in {create_schedule_key(seq[i]) : i \in DOMAIN seq} |->
        LET idx == {i \in DOMAIN seq : create_schedule_key(seq[i]) = k}
            last == CHOOSE i \in idx : \A j \in idx : j <= i
        IN seq[last]]

added_keys_all(old_key_set, new_key_set) == new_key_set
added_keys(old_key_set, new_key_set) == new_key_set \ old_key_set

removed_keys_all(old_key_set, new_key_set) == old_key_set
removed_keys(old_key_set, new_key_set) == old_key_set \ new_key_set

common_keys(old_key_set, new_key_set) == old_key_set \cap new_key_set

is_modified(old_item, new_item) ==
    \/ PyNe(old_item.team, new_item.team)
    \/ PyNe(old_item.venue, new_item.venue)
    \/ PyNe(old_item.end_time, new_item.end_time)

NoChanges ==
    [status |-> "none", added |-> <<>>, removed |-> <<>>, modified |-> <<>>,
     has_changes |-> FALSE]

\* 'has_changes': len(added_keys) > 0 or len(removed_keys) > 0 or
\* len(modified_keys) > 0
has_changes_keys_only(ak, rk, mk) == Cardinality(ak) > 0 \/ Cardinality(rk) > 0
has_changes_of(ak, rk, mk) ==
    Cardinality(ak) > 0 \/ Cardinality(rk) > 0 \/ Cardinality(mk) > 0

\* item['date'], item['start_time'], item['type'] or item['league'] raises
\* KeyError: the record has no such key
MissingKey(item) ==
    \E f \in {"date", "start_time", "type", "league"} : item[f].kind = "none"

DiffRaised(exc) ==
    [status |-> exc, added |-> <<>>, removed |-> <<>>, modified |-> <<>>,
     has_changes |-> FALSE]

\* The reports detect_changes can return: the three sequences follow the
\* iteration order of Python sets, which the language leaves open.  A
\* KeyError of create_schedule_key leaves the function.
detect_changes(old, new) ==
    IF \E item \in Range(old) \cup Range(new) : MissingKey(item)
    THEN {DiffRaised("KeyError")}
    ELSE
    LET old_keys == KeyMap(old)
        new_keys == KeyMap(new)
        old_key_set == DOMAIN old_keys
        new_key_set == DOMAIN new_keys
        ak == added_keys(old_key_set, new_key_set)
        rk == removed_keys(old_key_set, new_key_set)
        mk == {k \in common_keys(old_key_set, new_key_set) :
                  is_modified(old_keys[k], new_keys[k])}
    IN  {[status |-> "ok",
          added |-> [i \in DOMAIN a |-> new_keys[a[i]]],
          removed |-> [i \in DOMAIN r |-> old_keys[r[i]]],
          modified |-> [i \in DOMAIN m |-> <<m[i], old_keys[m[i]], new_keys[m[i]]>>],
          has_changes |-> has_changes_of(ak, rk, mk)] :
            a \in Orderings(ak), r \in Orderings(rk), m \in Orderings(mk)}

(***************************************************************************)
(* Collections handed to detect_changes in SpecDiff: three identity keys,  *)
(* entries that share a key and differ in team, entries whose team or      *)
(* end_time is the value of an empty CSV cell, and an entry of a file that *)
(* has no league column.                                                   *)
(***************************************************************************)
DiffEntries ==
    {Entry(S("2024-06-01"), S("18:00"), S("19:00"), S("Game"), S("LeagueA"),
           S("TeamX vs TeamY"), S("VenueY")),
     Entry(S("2024-06-01"), S("18:00"), S("19:00"), S("Game"), S("LeagueA"),
           S("TeamX vs TeamQ"), S("VenueY")),
     Entry(S("2024-06-01"), S("18:00"), S("19:00"), S("Game"), S("LeagueA"),
           NaN, S("VenueY")),
     Entry(S("2024-06-02"), S("09:00"), S("10:00"), S("Practice"), S("LeagueA"),
           S("TeamZ"), S("VenueY")),
     Entry(S("2024-06-02"), S("09:00"), NaN, S("Practice"), S("LeagueA"),
           S("TeamZ"), S("VenueY")),
     Entry(S("2024-06-03"), S("09:00"), S("10:00"), S("Practice"), S("LeagueB"),
           S("TeamW"), S("VenueY")),
     Entry(S("2024-06-03"), S("09:00"), S("10:00"), S("Practice"), None,
           S("TeamW"), S("VenueY"))}


(***************************************************************************)
(* Window filter                                                           *)
(*                                                                         *)
(* A datetime is [day, sec]: the calendar day (its index in DateTexts) and *)
(* the second of that day.                                                 *)
(***************************************************************************)
ONE_HOUR == 3600                    \* timedelta(hours=1), in seconds
DaySeconds == 24 * ONE_HOUR

\* The calendar dates the model writes, in calendar order; strptime with
\* '%Y-%m-%d' accepts exactly these among the texts of the model
DateTexts == <<"2024-06-01", "2024-06-02", "2024-06-03", "2024-06-04",
               "2024-06-05", "2024-06-06">>

\* The start-time texts of the model: the number of ':' in each, and what
\* strptime makes of it under '%H:%M' and under '%H:%M:%S' (-1: ValueError)
TimeTexts ==
    {[text |-> "17:00",    colons |-> 1, hm |-> 17 * ONE_HOUR, hms |-> -1],
     [text |-> "18:30:00", colons |-> 2, hm |-> -1, hms |-> 18 * ONE_HOUR + 1800],
     [text |-> "TBD",      colons |-> 0, hm |-> -1, hms |-> -1]}

TimeText(text) ==
    IF \E t \in TimeTexts : t.text = text
    THEN CHOOSE t \in TimeTexts : t.text = text
    ELSE [text |-> text, colons |-> 0, hm |-> -1, hms |-> -1]

\* datetime.strptime(text, '%Y-%m-%d').date() on a str: the day, or -1 for ValueError
ParseDate(text) ==
    IF \E i \in DOMAIN DateTexts : DateTexts[i] = text
    THEN CHOOSE i \in DOMAIN DateTexts : DateTexts[i] = text
    ELSE -1

\* Seconds since the start of day 0
Instant(day, sec) == day * DaySeconds + sec

\* game_datetime > now - timedelta(hours=1)
within_grace_inclusive(game_day, game_sec, t) ==
    Instant(game_day, game_sec) >= Instant(t.day, t.sec) - ONE_HOUR
within_grace(game_day, game_sec, t) ==
    Instant(game_day, game_sec) > Instant(t.day, t.sec) - ONE_HOUR

\* item_date > today and item_date <= end_date
in_future_window_exclusive(item_date, today, end_date) ==
    item_date > today /\ item_date < end_date
in_future_window(item_date, today, end_date) ==
    item_date > today /\ item_date <= end_date

\* The inner try block (lines 55-68) for an item dated today:
\* "keep", "drop", or "TypeError" (an exception neither except clause catches)
today_decision(item, t) ==
    LET start_time_str == IF item.start_time.kind = "none" THEN S("")
                          ELSE item.start_time      \* item.get('start_time', '')
    IN  IF ~Truthy(start_time_str) THEN "keep"       \* no time info
        ELSE IF start_time_str.kind = "nan"
             THEN "TypeError"                        \* ':' in <float>
        ELSE LET tt == TimeText(start_time_str.s)
                 sec == IF tt.colons = 2 THEN tt.hms ELSE tt.hm
             IN  IF sec < 0 THEN "keep"              \* except (ValueError, KeyError)
                 ELSE IF within_grace(ParseDate(item.date.s), sec, t)
                      THEN "keep" ELSE "drop"

\* One iteration of the loop (lines 45-72):
\* "keep", "drop", "warn" (skipped with a warning) or "TypeError"
item_decision(item, n, t) ==
    LET today == t.day
        end_date == today + n
    IN  IF item.date.kind = "none" THEN "warn"           \* KeyError
        ELSE IF item.date.kind = "nan" THEN "TypeError"  \* strptime(<float>, ...)
        ELSE LET item_date == ParseDate(item.date.s)
             IN  IF item_date < 0 THEN "warn"            \* ValueError
                 ELSE IF in_future_window(item_date, today, end_date) THEN "keep"
                 ELSE IF item_date = today THEN today_decision(item, t)
                 ELSE "drop"

Raised(exc) == [status |-> exc, items |-> <<>>]
NotRun == [status |-> "none", items |-> <<>>]

\* filter_next_n_days(items, days) called at instant t: the filtered list,
\* or the exception that leaves the function
filter_next_n_days(seq, n, t) ==
    IF \E i \in DOMAIN seq : item_decision(seq[i], n, t) = "TypeError"
    THEN Raised("TypeError")
    ELSE [status |-> "ok",
          items |-> SelectSeq(seq, LAMBDA item : item_decision(item, n, t) = "keep")]

(***************************************************************************)
(* Collections handed to the filter in SpecFilter.                         *)
(***************************************************************************)
FEntry(date, start_time) ==
    Entry(date, start_time, S("19:00"), S("Game"), S("LeagueA"), S("TeamX"),
          S("VenueY"))

FilterEntries ==
    {FEntry(S(DateTexts[d]), S("17:00")) : d \in 1..5}
    \cup {FEntry(S(DateTexts[d]), st) :
            d \in 2..3, st \in {S("18:30:00"), S("TBD"), S(""), NaN, None}}
    \cup {FEntry(S("June 5"), S("17:00")), FEntry(NaN, S("17:00"))}

\* Seconds of the day at which the model reads the clock: 00:30, 17:30,
\* 18:00 (one hour after 17:00, to the second), 18:00:01, 19:00, 19:30 (one
\* hour after 18:30:00), 20:00
NowSecs == {1800, 17 * ONE_HOUR + 1800, 18 * ONE_HOUR, 18 * ONE_HOUR + 1,
            19 * ONE_HOUR, 19 * ONE_HOUR + 1800, 20 * ONE_HOUR}
NowDays == 2..3

(***************************************************************************)
(* Files.  A CSV file is [exists, rows]; a row gives the text of each      *)
(* cell, "" for an empty cell.                                             *)
(***************************************************************************)
Fields == {"date", "start_time", "end_time", "type", "league", "team", "venue"}

NoFile == [exists |-> FALSE, rows |-> <<>>]
NoChangesFile == [exists |-> FALSE, report |-> NoChanges]

\* Cell texts pandas.read_csv reads as missing (its default na_values), among
\* the texts of the model
NaTexts == {"", "NA", "NaN", "nan", "None", "null"}

\* the value read_csv / to_dict('records') gives for a cell
LoadCell(text) == IF text \in NaTexts THEN NaN ELSE S(text)

\* the text DataFrame.to_csv writes for a value: nothing for nan and None
ToCell(v) == IF v.kind = "str" THEN v.s ELSE ""

load_schedule_csv(file) ==
    IF ~file.exists THEN <<>>
    ELSE [i \in DOMAIN file.rows |-> [f \in Fields |-> LoadCell(file.rows[i][f])]]

\* The file after save_snapshot(items, filepath): the items written, or, when
\* to_csv fails and the exception is logged and swallowed, the file as it
\* was (it could not be opened) or the rows that got written before the
\* failure (to_csv opens the path itself for writing, which truncates it)
save_snapshot(seq, file) ==
    LET rows == [i \in DOMAIN seq |-> [f \in Fields |-> ToCell(seq[i][f])]]
    IN  {[exists |-> TRUE, rows |-> rows], file}
            \cup {[exists |-> TRUE, rows |-> SubSeq(rows, 1, k)] : k \in 0..(Len(seq) - 1)}

DAYS_TO_MONITOR == MonitorDays

\* snapshot_items = filter_next_n_days(snapshot_all, DAYS_TO_MONITOR)
snapshot_window_unfiltered(snapshot_all, n, t) ==
    [status |-> "ok", items |-> snapshot_all]
snapshot_window(snapshot_all, n, t) == filter_next_n_days(snapshot_all, n, t)

(***************************************************************************)
(* Spec: the detector process, run again and again over the same files,    *)
(* with the scraper rewriting the current schedule between runs and the    *)
(* clock advancing at any point.                                           *)
(***************************************************************************)
Row(date, start_time, end_time, type, league, team) ==
    [date |-> date, start_time |-> start_time, end_time |-> end_time,
     type |-> type, league |-> league, team |-> team, venue |-> "Amherst Stadium"]

\* Rows the scraper writes in the model
CsvRows ==
    {Row("2024-06-02", "17:00", "18:00", "Game", "LeagueA", "TeamX vs TeamY"),
     Row("2024-06-02", "17:00", "18:00", "Game", "LeagueA", "TeamX vs TeamQ"),
     Row("2024-06-03", "18:30:00", "19:30:00", "Practice", "LeagueA", "TeamZ"),
     Row("2024-06-04", "17:00", "", "Practice", "LeagueB", "TeamW"),
     Row("2024-06-03", "", "18:00", "Game", "LeagueB", "TBA")}

\* The start-time texts of the model in the order of Python's str comparison
StartTexts == <<"", "09:00", "17:00", "18:00", "18:30:00">>
TextRank(texts, text) == CHOOSE i \in DOMAIN texts : texts[i] = text

\* all_items.sort(key=lambda x: (x['date'], x['start_time'])) in format_items:
\* the rows of the current schedule are in this order
SortedRows(rows) ==
    \A i, j \in DOMAIN rows :
        i < j =>
            \/ TextRank(DateTexts, rows[i].date) < TextRank(DateTexts, rows[j].date)
            \/ /\ rows[i].date = rows[j].date
               /\ TextRank(StartTexts, rows[i].start_time)
                      <= TextRank(StartTexts, rows[j].start_time)

\* Seconds of the day at which the clock of the cycles is read: 17:30 and
\* 18:00:01 (17:00 is then more than an hour ago)
ClockSecs == {17 * ONE_HOUR + 1800, 18 * ONE_HOUR + 1}
FirstDay == 2

NoCycle ==
    [snap0 |-> NoFile, chg0 |-> NoChangesFile, current_all |-> <<>>,
     snapshot_all |-> <<>>, now1 |-> [day |-> 0, sec |-> 0],
     now2 |-> [day |-> 0, sec |-> 0], bootstrap |-> FALSE, diffed |-> FALSE,
     raised |-> FALSE]

\* How main() ends: sys.exit(code) raises SystemExit, anything else that
\* leaves it is an Exception
SystemExit(code) == [kind |-> "SystemExit", code |-> code]
Escaped == [kind |-> "Exception", code |-> 0]

\* __main__, lines 303-308: 'except Exception' does not catch SystemExit,
\* which ends the process with its code; an Exception becomes sys.exit(2)
process_exit_catch_all(outcome) == 2
process_exit(outcome) == IF outcome.kind = "SystemExit" THEN outcome.code ELSE 2

Init ==
    /\ clock = [day |-> FirstDay, sec |-> 17 * ONE_HOUR + 1800]
    /\ current_csv = NoFile
    /\ snapshot_csv = NoFile
    /\ changes_json = NoChangesFile
    /\ pc = "idle"
    /\ current_items = NotRun
    /\ snapshot_items = NotRun
    /\ report = NoChanges
    /\ exit_code = -1
    /\ cycle = NoCycle
    /\ old_items = <<>> /\ new_items = <<>>
    /\ changes = NoChanges /\ rchanges = NoChanges
    /\ items = <<>> /\ days = 0 /\ now = [day |-> 2, sec |-> 1800]
    /\ filtered = NotRun
    /\ args = <<>> /\ result = [status |-> "none"]
    /\ mon = [pc |-> "off"] /\ unsent = {}

\* time passes; the clock is read at the start of each filter call only
Tick ==
    /\ pc \in {"idle", "filtered"}
    /\ \E t \in [day : FirstDay..MaxDay, sec : ClockSecs] :
          /\ Instant(t.day, t.sec) > Instant(clock.day, clock.sec)
          /\ clock' = t
    /\ UNCHANGED <<current_csv, snapshot_csv, changes_json, pc, current_items,
                   snapshot_items, report, exit_code, cycle, diffVars, filterVars, auxVars, monVars>>

\* the scraper's save_to_csv: the current schedule is rewritten between two
\* runs of the detector
Scrape ==
    /\ pc = "idle"
    /\ \E rows \in SeqsUpTo(CsvRows, MaxRows) :
          /\ SortedRows(rows)
          /\ current_csv' = [exists |-> TRUE, rows |-> rows]
    /\ UNCHANGED <<clock, snapshot_csv, changes_json, pc, current_items,
                   snapshot_items, report, exit_code, cycle, diffVars, filterVars, auxVars, monVars>>

\* main, lines 243-251: load the current schedule and filter it
LoadCurrent ==
    /\ pc = "idle"
    /\ LET current_all == load_schedule_csv(current_csv)
           f == filter_next_n_days(current_all, DAYS_TO_MONITOR, clock)
       IN  /\ cycle' = [NoCycle EXCEPT !.snap0 = snapshot_csv,
                                       !.chg0 = changes_json,
                                       !.current_all = current_all,
                                       !.now1 = clock, !.now2 = clock,
                                       !.raised = (current_all # <<>>
                                                      /\ f.status # "ok")]
           /\ snapshot_items' = NotRun
           /\ report' = NoChanges
           /\ IF current_all = <<>>
              THEN /\ current_items' = NotRun      \* "No current schedule found"
                   /\ exit_code' = process_exit(SystemExit(1))
                   /\ pc' = "exited"
              ELSE /\ current_items' = f
                   /\ IF f.status = "ok"
                      THEN pc' = "filtered" /\ exit_code' = -1
                      ELSE pc' = "exited" /\ exit_code' = process_exit(Escaped)
    /\ UNCHANGED <<clock, current_csv, snapshot_csv, changes_json, diffVars, filterVars, auxVars, monVars>>

\* main, lines 253-258: no snapshot, so this run only writes one
Bootstrap ==
    /\ pc = "filtered"
    /\ ~snapshot_csv.exists
    /\ snapshot_csv' \in save_snapshot(current_items.items, snapshot_csv)
    /\ cycle' = [cycle EXCEPT !.bootstrap = TRUE, !.now2 = clock]
    /\ exit_code' = process_exit(SystemExit(0))
    /\ pc' = "exited"
    /\ UNCHANGED <<clock, current_csv, changes_json, current_items, snapshot_items,
                   report, diffVars, filterVars, auxVars, monVars>>

\* main, lines 260-269: load and filter the snapshot, then diff
Detect ==
    /\ pc = "filtered"
    /\ snapshot_csv.exists
    /\ LET snapshot_all == load_schedule_csv(snapshot_csv)
           f == snapshot_window(snapshot_all, DAYS_TO_MONITOR, clock)
           seen == [cycle EXCEPT !.snapshot_all = snapshot_all, !.now2 = clock]
       IN  /\ snapshot_items' = f
           /\ IF f.status = "ok"
              THEN \E r \in detect_changes(f.items, current_items.items) :
                      /\ report' = r
                      /\ IF r.status = "ok"
                         THEN /\ cycle' = [seen EXCEPT !.diffed = TRUE]
                              /\ pc' = "diffed"
                              /\ exit_code' = -1
                         ELSE /\ cycle' = [seen EXCEPT !.raised = TRUE]
                              /\ pc' = "exited"
                              /\ exit_code' = process_exit(Escaped)
              ELSE /\ report' = NoChanges
                   /\ cycle' = [seen EXCEPT !.raised = TRUE]
                   /\ pc' = "exited"
                   /\ exit_code' = process_exit(Escaped)
    /\ UNCHANGED <<clock, current_csv, snapshot_csv, changes_json, current_items,
                   diffVars, filterVars, auxVars, monVars>>

\* (a detector that rewrote the snapshot on every diffed cycle)
NoChangesExit_saving ==
    /\ pc = "diffed"
    /\ ~report.has_changes
    /\ snapshot_csv' = [exists |-> TRUE, rows |-> <<>>]
    /\ exit_code' = 0
    /\ pc' = "exited"
    /\ UNCHANGED <<clock, current_csv, changes_json, current_items,
                   snapshot_items, report, cycle, diffVars, filterVars, auxVars, monVars>>

\* main, lines 298-300
NoChangesExit ==
    /\ pc = "diffed"
    /\ ~report.has_changes
    /\ exit_code' = process_exit(SystemExit(0))
    /\ pc' = "exited"
    /\ UNCHANGED <<clock, current_csv, snapshot_csv, changes_json, current_items,
                   snapshot_items, report, cycle, diffVars, filterVars, auxVars, monVars>>

\* main, lines 271-291: the change file is written
WriteChanges ==
    /\ pc = "diffed"
    /\ report.has_changes
    /\ changes_json' = [exists |-> TRUE, report |-> report]
    /\ pc' = "written"
    /\ UNCHANGED <<clock, current_csv, snapshot_csv, current_items, snapshot_items,
                   report, exit_code, cycle, diffVars, filterVars, auxVars, monVars>>

\* main, lines 289-291: open() or the write raises; the exception leaves
\* main and the handler of lines 305-308 exits 2.  The file is as it was
\* when it could not be opened, cut short when the write failed
WriteChangesFails ==
    /\ pc = "diffed"
    /\ report.has_changes
    /\ changes_json' \in {changes_json, [exists |-> TRUE, report |-> DiffRaised("truncated")]}
    /\ cycle' = [cycle EXCEPT !.raised = TRUE]
    /\ exit_code' = process_exit(Escaped)
    /\ pc' = "exited"
    /\ UNCHANGED <<clock, current_csv, snapshot_csv, current_items, snapshot_items,
                   report, diffVars, filterVars, auxVars, monVars>>

\* main, lines 293-297: the snapshot is replaced and the process exits 1
UpdateSnapshot ==
    /\ pc = "written"
    /\ snapshot_csv' \in save_snapshot(current_items.items, snapshot_csv)
    /\ exit_code' = process_exit(SystemExit(1))
    /\ pc' = "exited"
    /\ UNCHANGED <<clock, current_csv, changes_json, current_items, snapshot_items,
                   report, cycle, diffVars, filterVars, auxVars, monVars>>

\* the process is gone: its locals and its exit status with it
ProcessEnd ==
    /\ pc = "exited"
    /\ pc' = "idle"
    /\ current_items' = NotRun
    /\ snapshot_items' = NotRun
    /\ report' = NoChanges
    /\ exit_code' = -1
    /\ cycle' = NoCycle
    /\ UNCHANGED <<clock, current_csv, snapshot_csv, changes_json, diffVars, filterVars, auxVars, monVars>>

Next ==
    \/ Tick
    \/ Scrape
    \/ LoadCurrent
    \/ Bootstrap
    \/ Detect
    \/ NoChangesExit
    \/ WriteChanges
    \/ WriteChangesFails
    \/ UpdateSnapshot
    \/ ProcessEnd

Spec == Init /\ [][Next]_vars

(***************************************************************************)
(* SpecDiff: detect_changes on every pair of collections of the bound.     *)
(***************************************************************************)
NoResult == [status |-> "none"]

AuxIdle ==
    /\ args = <<>>
    /\ result = NoResult
    /\ mon = [pc |-> "off"]
    /\ unsent = {}

CycleIdle ==
    /\ clock = [day |-> 2, sec |-> 1800]
    /\ current_csv = NoFile
    /\ snapshot_csv = NoFile
    /\ changes_json = NoChangesFile
    /\ pc = "off"
    /\ current_items = NotRun
    /\ snapshot_items = NotRun
    /\ report = NoChanges
    /\ exit_code = -1
    /\ cycle = NoCycle

FilterIdle ==
    /\ items = <<>>
    /\ days = 0
    /\ now = [day |-> 2, sec |-> 1800]
    /\ filtered = NotRun

DiffIdle ==
    /\ old_items = <<>>
    /\ new_items = <<>>
    /\ changes = NoChanges
    /\ rchanges = NoChanges

InitDiff ==
    /\ old_items \in SeqsUpTo(DiffEntries, MaxLen)
    /\ new_items \in SeqsUpTo(DiffEntries, MaxLen)
    /\ changes = NoChanges
    /\ rchanges = NoChanges
    /\ FilterIdle
    /\ CycleIdle
    /\ AuxIdle

\* changes = detect_changes(old_items, new_items)
Diff ==
    /\ changes.status = "none"
    /\ changes' \in detect_changes(old_items, new_items)
    /\ UNCHANGED <<old_items, new_items, rchanges, filterVars, cycleVars, auxVars, monVars>>

\* the same call with the arguments exchanged
DiffReversed ==
    /\ rchanges.status = "none"
    /\ rchanges' \in detect_changes(new_items, old_items)
    /\ UNCHANGED <<old_items, new_items, changes, filterVars, cycleVars, auxVars, monVars>>

NextDiff == Diff \/ DiffReversed

SpecDiff == InitDiff /\ [][NextDiff]_vars

(***************************************************************************)
(* SpecFilter: filter_next_n_days on every collection, horizon and         *)
(* reference instant of the bound.                                         *)
(***************************************************************************)
InitFilter ==
    /\ items \in SeqsUpTo(FilterEntries, MaxLen)
    /\ days \in 0..MaxHorizon
    /\ now \in [day : NowDays, sec : NowSecs]
    /\ filtered = NotRun
    /\ DiffIdle
    /\ CycleIdle
    /\ AuxIdle

Filter ==
    /\ filtered.status = "none"
    /\ filtered' = filter_next_n_days(items, days, now)
    /\ UNCHANGED <<items, days, now, diffVars, cycleVars, auxVars, monVars>>

NextFilter == Filter

SpecFilter == InitFilter /\ [][NextFilter]_vars


(***************************************************************************)
(* Properties of detect_changes (SpecDiff)                                 *)
(***************************************************************************)
KeysOf(seq) == {create_schedule_key(seq[i]) : i \in DOMAIN seq}
ModifiedKeys(rep) == {rep.modified[i][1] : i \in DOMAIN rep.modified}

\* C1: every key of keys(old) \cup keys(new) is in exactly one of the keys
\* of added, of removed, of modified and the unchanged common keys, and the
\* key sets of added, removed and modified are pairwise disjoint.
C1_Partition ==
    changes.status = "ok" =>
        LET A == KeysOf(changes.added)
            R == KeysOf(changes.removed)
            M == ModifiedKeys(changes)
            U == KeysOf(old_items) \cup KeysOf(new_items)
            Unchanged == (KeysOf(old_items) \cap KeysOf(new_items)) \ M
            Classes == <<A, R, M, Unchanged>>
        IN  /\ A \cap R = {} /\ A \cap M = {} /\ R \cap M = {}
            /\ A \cup R \cup M \subseteq U
            /\ \A k \in U : Cardinality({c \in 1..4 : k \in Classes[c]}) = 1

\* a side with a duplicate key, and keys both added and removed
C1_Witness ==
    /\ changes.status = "ok"
    /\ Len(old_items) = 2
    /\ create_schedule_key(old_items[1]) = create_schedule_key(old_items[2])
    /\ changes.added # <<>>
    /\ changes.removed # <<>>

\* C2: the keys of added are exactly keys(new) \ keys(old) and each added
\* entry is an entry of new; the keys of removed are exactly
\* keys(old) \ keys(new) and each removed entry is an entry of old; each
\* such key occurs once in its sequence.
C2_AddedRemoved ==
    changes.status = "ok" =>
        /\ KeysOf(changes.added) = KeysOf(new_items) \ KeysOf(old_items)
        /\ Range(changes.added) \subseteq Range(new_items)
        /\ Len(changes.added) = Cardinality(KeysOf(changes.added))
        /\ KeysOf(changes.removed) = KeysOf(old_items) \ KeysOf(new_items)
        /\ Range(changes.removed) \subseteq Range(old_items)
        /\ Len(changes.removed) = Cardinality(KeysOf(changes.removed))

\* one key added, one removed, one key on both sides
C2_Witness ==
    /\ changes.status = "ok"
    /\ Len(changes.added) = 1
    /\ Len(changes.removed) = 1
    /\ KeysOf(old_items) \cap KeysOf(new_items) # {}

\* C3 (as claimed): a common key has a modification triple if and only if
\* its old and new entry differ in team, venue or end_time; entries that
\* agree on all three never appear in modified; at most one triple per key.
C3_ModifiedIffDiffer ==
    changes.status = "ok" =>
        \A k \in KeysOf(old_items) \cap KeysOf(new_items) :
            LET o == KeyMap(old_items)[k]
                n == KeyMap(new_items)[k]
            IN  /\ (k \in ModifiedKeys(changes)) <=>
                       (o.team # n.team \/ o.venue # n.venue
                        \/ o.end_time # n.end_time)
                /\ Cardinality({i \in DOMAIN changes.modified :
                                   changes.modified[i][1] = k}) <= 1

\* C4 (as claimed): detect_changes(X, X) reports nothing, for every X.
C4_DiffSelfEmpty ==
    (changes.status = "ok" /\ old_items = new_items) =>
        /\ changes.added = <<>>
        /\ changes.removed = <<>>
        /\ changes.modified = <<>>
        /\ ~changes.has_changes

\* C5: the keys of detect_changes(A, B).added are the keys of
\* detect_changes(B, A).removed.
C5_Symmetry ==
    (changes.status = "ok" /\ rchanges.status = "ok") =>
        KeysOf(changes.added) = KeysOf(rchanges.removed)

\* both calls made, with something added and something removed
C5_Witness ==
    /\ changes.status = "ok"
    /\ rchanges.status = "ok"
    /\ changes.added # <<>>
    /\ rchanges.added # <<>>

(***************************************************************************)
(* Properties of filter_next_n_days (SpecFilter)                           *)
(***************************************************************************)
Retained(item) == item \in Range(filtered.items)
HasDate(item) == item.date.kind = "str" /\ ParseDate(item.date.s) >= 0
DateOf(item) == ParseDate(item.date.s)

\* the start of an entry whose start_time reads as HH:MM or HH:MM:SS
HasStart(item) ==
    /\ item.start_time.kind = "str"
    /\ \E t \in TimeTexts : t.text = item.start_time.s /\ (t.hm >= 0 \/ t.hms >= 0)
StartOf(item) ==
    LET t == CHOOSE t \in TimeTexts : t.text = item.start_time.s
    IN  IF t.hm >= 0 THEN t.hm ELSE t.hms

\* C8 (as claimed): for every horizon >= 0, an entry dated today + horizon
\* is retained, and an entry dated today + horizon + 1, before today or
\* after today + horizon is dropped.
C8_BoundaryAnyHorizon ==
    filtered.status = "ok" =>
        \A i \in DOMAIN items :
            HasDate(items[i]) =>
                /\ DateOf(items[i]) = now.day + days => Retained(items[i])
                /\ (DateOf(items[i]) < now.day \/ DateOf(items[i]) > now.day + days)
                       => ~Retained(items[i])

\* C8 (amended): in a call that returns, an entry dated today + horizon is
\* retained when horizon >= 1; an entry dated today + horizon + 1, before
\* today or after today + horizon is dropped for every horizon >= 0; with
\* horizon = 0 an entry dated today that started an hour ago or earlier is
\* dropped.
C8_Boundary ==
    filtered.status = "ok" =>
        \A i \in DOMAIN items :
            HasDate(items[i]) =>
                /\ (days >= 1 /\ DateOf(items[i]) = now.day + days)
                       => Retained(items[i])
                /\ (DateOf(items[i]) < now.day \/ DateOf(items[i]) > now.day + days)
                       => ~Retained(items[i])
                /\ (days = 0 /\ DateOf(items[i]) = now.day /\ HasStart(items[i])
                        /\ StartOf(items[i]) <= now.sec - 3600)
                       => ~Retained(items[i])

\* a call with an entry on the last day of the window and one on the day after
C8_Witness ==
    /\ filtered.status = "ok"
    /\ days >= 1
    /\ \E i, j \in DOMAIN items :
          /\ HasDate(items[i]) /\ DateOf(items[i]) = now.day + days
          /\ HasDate(items[j]) /\ DateOf(items[j]) = now.day + days + 1
          /\ Retained(items[i]) /\ ~Retained(items[j])

\* C9: an entry dated today with a start that parses is retained if and
\* only if (date, start_time) is later than the reference instant minus one
\* hour; a start exactly one hour ago is dropped.
C9_SameDayGrace ==
    filtered.status = "ok" =>
        \A i \in DOMAIN items :
            (HasDate(items[i]) /\ DateOf(items[i]) = now.day /\ HasStart(items[i])) =>
                (Retained(items[i]) <=>
                    DateOf(items[i]) * 86400 + StartOf(items[i])
                        > now.day * 86400 + now.sec - 3600)

\* an entry that started exactly one hour before the reference instant
C9_Witness ==
    /\ filtered.status = "ok"
    /\ \E i \in DOMAIN items :
          /\ HasDate(items[i]) /\ DateOf(items[i]) = now.day /\ HasStart(items[i])
          /\ StartOf(items[i]) = now.sec - 3600
          /\ ~Retained(items[i])

\* C10 (as claimed): an entry dated today whose start_time is absent, empty,
\* unparseable or the value of an empty CSV cell is retained.  Stated for
\* calls in which every entry has a text date.
C10_FailOpen ==
    (filtered.status # "none" /\ \A i \in DOMAIN items : items[i].date.kind = "str") =>
        \A i \in DOMAIN items :
            (HasDate(items[i]) /\ DateOf(items[i]) = now.day /\ ~HasStart(items[i])) =>
                (filtered.status = "ok" /\ Retained(items[i]))

(***************************************************************************)
(* Properties of the detection cycle (Spec)                                *)
(***************************************************************************)
\* item is dated before the day of t, or on the day of t with a start more
\* than one hour before t
OutOfWindow(item, t) ==
    /\ HasDate(item)
    /\ \/ DateOf(item) < t.day
       \/ /\ DateOf(item) = t.day
          /\ HasStart(item)
          /\ DateOf(item) * 86400 + StartOf(item) < t.day * 86400 + t.sec - 3600

\* C6: in a cycle that diffs, no entry that has fallen out of the window is
\* in the removed sequence of the report, nor in that of the change file
\* the cycle writes.
C6_AgedOutNotRemoved ==
    cycle.diffed =>
        /\ \A i \in DOMAIN report.removed :
              ~OutOfWindow(report.removed[i], cycle.now2)
        /\ (pc = "written" \/ (pc = "exited" /\ exit_code = 1)) =>
              \A i \in DOMAIN changes_json.report.removed :
                  ~OutOfWindow(changes_json.report.removed[i], cycle.now2)

\* a finished cycle whose snapshot held an entry that has aged out and that
\* the current schedule no longer lists
C6_Witness ==
    /\ pc = "exited"
    /\ cycle.diffed
    /\ \E i \in DOMAIN cycle.snapshot_all :
          /\ OutOfWindow(cycle.snapshot_all[i], cycle.now2)
          /\ create_schedule_key(cycle.snapshot_all[i])
                 \notin KeysOf(current_items.items)

\* C7 (as claimed): a cycle that starts with no snapshot ends with exit code
\* 0, the snapshot holding the current filtered collection, no report and
\* the change file untouched, whatever the current schedule is.
C7_BootstrapAlways ==
    (pc = "exited" /\ ~cycle.snap0.exists) =>
        /\ exit_code = 0
        /\ snapshot_csv.exists
        /\ load_schedule_csv(snapshot_csv) =
               filter_next_n_days(cycle.current_all, DAYS_TO_MONITOR, cycle.now1).items
        /\ report.status = "none"
        /\ changes_json = cycle.chg0

(***************************************************************************)
(* Further properties of filter_next_n_days (SpecFilter)                   *)
(***************************************************************************)
\* an entry whose date is missing or is no calendar date, text or not
MalformedDate(item) == ~HasDate(item)

\* C11 (as claimed): the call returns normally, an entry with a missing or
\* unparseable date is left out, and the rest is filtered as if that entry
\* were not in the list.  Stated for calls in which no start_time is the
\* value of an empty cell.
C11_MalformedDateSkipped ==
    (filtered.status # "none"
        /\ \A i \in DOMAIN items : items[i].start_time.kind # "nan") =>
        /\ filtered.status = "ok"
        /\ \A i \in DOMAIN items : MalformedDate(items[i]) => ~Retained(items[i])
        /\ filtered.items =
               filter_next_n_days(SelectSeq(items, LAMBDA item : ~MalformedDate(item)),
                                  days, now).items

(***************************************************************************)
(* Ordering for presentation                                               *)
(***************************************************************************)
\* sorted(seq, key=...), a stable sort: an element goes after every element
\* that is less and after every earlier element that is not greater.  less
\* is the set of the pairs <<x, y>> with key(x) < key(y)
StableSort(seq, less) ==
    LET pos(i) == 1 + Cardinality({j \in DOMAIN seq :
                        \/ <<seq[j], seq[i]>> \in less
                        \/ (<<seq[i], seq[j]>> \notin less /\ j < i)})
    IN  [k \in DOMAIN seq |-> seq[CHOOSE i \in DOMAIN seq : pos(i) = k]]

\* Python's < on two text values
TextLess(texts, a, b) == TextRank(texts, a.s) < TextRank(texts, b.s)

\* (x['date'], x['start_time']) < (y['date'], y['start_time'])
date_start_less(x, y) ==
    \/ x.date # y.date /\ TextLess(DateTexts, x.date, y.date)
    \/ x.date = y.date /\ x.start_time # y.start_time
          /\ TextLess(StartTexts, x.start_time, y.start_time)

\* a text and a nan meet at the place that decides the comparison of the
\* two tuples: Python raises TypeError
date_start_incomparable(x, y) ==
    \/ x.date # y.date /\ (x.date.kind = "nan") # (y.date.kind = "nan")
    \/ x.date = y.date /\ x.start_time # y.start_time
          /\ (x.start_time.kind = "nan") # (y.start_time.kind = "nan")

\* sorted(changes['added'], key=lambda x: (x['date'], x['start_time'])), as
\* both formatters call it; TypeError as soon as two of the entries cannot
\* be compared
sorted_by_date_start_unsorted(seq) == [status |-> "ok", items |-> seq]
sorted_by_date_start(seq) ==
    IF \E i, j \in DOMAIN seq : date_start_incomparable(seq[i], seq[j])
    THEN Raised("TypeError")
    ELSE [status |-> "ok",
          items |-> StableSort(seq, {p \in Range(seq) \X Range(seq) :
                                         date_start_less(p[1], p[2])})]

\* seq is in ascending (date, start_time) order
Ascending(seq) ==
    \A i, j \in DOMAIN seq :
        i < j =>
            LET di == ParseDate(seq[i].date.s)
                dj == ParseDate(seq[j].date.s)
            IN  \/ di < dj
                \/ /\ di = dj
                   /\ TextRank(StartTexts, seq[i].start_time.s)
                          <= TextRank(StartTexts, seq[j].start_time.s)

SameEntries(a, b) ==
    /\ Len(a) = Len(b)
    /\ \A e \in Range(a) \cup Range(b) :
          Cardinality({i \in DOMAIN a : a[i] = e})
              = Cardinality({i \in DOMAIN b : b[i] = e})

\* C12 (as claimed): the added and removed sequences detect_changes returns
\* are in ascending (date, start_time) order.
C12_ReportSorted ==
    changes.status = "ok" =>
        Ascending(changes.added) /\ Ascending(changes.removed)

\* C12 (amended): the report carries added and removed in no particular
\* order; the formatter's sorted() puts the same entries in ascending
\* (date, start_time) order (entries with text date and start_time).
C12_SortedWhenFormatted ==
    changes.status = "ok" =>
        LET a == sorted_by_date_start(changes.added)
            r == sorted_by_date_start(changes.removed)
        IN  /\ a.status = "ok" /\ r.status = "ok"
            /\ Ascending(a.items) /\ SameEntries(a.items, changes.added)
            /\ Ascending(r.items) /\ SameEntries(r.items, changes.removed)

\* a report whose added sequence is not in ascending order
C12_Witness ==
    /\ changes.status = "ok"
    /\ Len(changes.added) = 2
    /\ ~Ascending(changes.added)

(***************************************************************************)
(* SpecKey: create_schedule_key on every pair of entries of the bound.     *)
(* Dates and start times are the texts the schedule API delivers, types    *)
(* come from SCHEDULE_TYPES, the league is any text; an empty cell is nan. *)
(***************************************************************************)
KeyDates == {S("2024-06-01"), S("2024-06-02")}
KeyStarts == {S("17:00"), S("18:30:00"), NaN}
KeyTypes == {S("Game"), S("Off-Ice Training")}
KeyLeagues == {S("A"), S("Game_A"), S("_A"), S("A_"), NaN}
KeyTeams == {S("TeamX"), NaN}
KeyEnds == {S("18:00"), NaN}

KeyEntries ==
    {Entry(d, st, en, ty, lg, tm, S("Amherst Stadium")) :
        d \in KeyDates, st \in KeyStarts, en \in KeyEnds, ty \in KeyTypes,
        lg \in KeyLeagues, tm \in KeyTeams}

InitKey ==
    /\ args \in KeyEntries \X KeyEntries
    /\ result = NoResult
    /\ mon = [pc |-> "off"] /\ unsent = {}
    /\ DiffIdle
    /\ FilterIdle
    /\ CycleIdle

\* result = the keys of the two entries
MakeKeys ==
    /\ result.status = "none"
    /\ result' = [status |-> "ok",
                  keys |-> <<create_schedule_key(args[1]),
                             create_schedule_key(args[2])>>]
    /\ UNCHANGED <<args, diffVars, filterVars, cycleVars, monVars>>

NextKey == MakeKeys

SpecKey == InitKey /\ [][NextKey]_vars

SameIdentity(a, b) ==
    /\ a.date = b.date
    /\ a.start_time = b.start_time
    /\ a.type = b.type
    /\ a.league = b.league

\* C13: two entries get the same key exactly when they agree on date,
\* start_time, type and league; team, venue and end_time play no part.
C13_KeyIffIdentity ==
    result.status = "ok" =>
        ((result.keys[1] = result.keys[2]) <=> SameIdentity(args[1], args[2]))

\* two entries that differ in team and end_time and share a key
C13_Witness ==
    /\ result.status = "ok"
    /\ args[1].team # args[2].team
    /\ args[1].end_time # args[2].end_time
    /\ result.keys[1] = result.keys[2]

\* C14 (as claimed): detect_changes never raises on an entry that lacks an
\* identity field; it keys the entry with an empty component and returns a
\* report.
C14_MissingFieldTolerated ==
    (changes.status # "none"
        /\ \E item \in Range(old_items) \cup Range(new_items) : MissingKey(item))
        => changes.status = "ok"

\* C15 (as claimed): when a cycle that detected changes has finished, the
\* snapshot file holds the new filtered collection of that cycle, also when
\* writing the snapshot met an I/O error.
C15_SnapshotIsNewBaseline ==
    (pc = "exited" /\ cycle.diffed /\ report.has_changes /\ exit_code = 1) =>
        load_schedule_csv(snapshot_csv) = current_items.items

InCycle == pc \in {"filtered", "diffed", "written", "exited"}

\* the snapshot file holds exactly the filtered current schedule of this cycle
SnapshotIsNew ==
    /\ current_items.status = "ok"
    /\ snapshot_csv.exists
    /\ snapshot_csv.rows =
           [i \in DOMAIN current_items.items |->
               [f \in Fields |-> ToCell(current_items.items[i][f])]]

\* C16 (as claimed): throughout a cycle the snapshot is the file of the
\* cycle's start or the complete new filtered collection; outside bootstrap
\* it changes only after the diff and the change-file write succeeded, and a
\* failed cycle leaves it as it was.
C16_SnapshotOldOrNew ==
    InCycle =>
        /\ snapshot_csv = cycle.snap0 \/ SnapshotIsNew
        /\ (snapshot_csv # cycle.snap0 /\ ~cycle.bootstrap) =>
               /\ cycle.diffed /\ report.status = "ok"
               /\ changes_json = [exists |-> TRUE, report |-> report]
        /\ exit_code = 2 => snapshot_csv = cycle.snap0

\* C17 (as claimed): a cycle with a snapshot whose current schedule has no
\* entries is diffed like any other: every in-window snapshot entry is
\* reported removed, the change file is written and the process exits 1.
C17_EmptyCurrentDiffed ==
    (pc = "exited" /\ cycle.snap0.exists /\ current_csv.exists
        /\ cycle.current_all = <<>>) =>
        /\ cycle.diffed
        /\ report.status = "ok"
        /\ Range(report.removed) = Range(snapshot_items.items)
        /\ report.has_changes => (exit_code = 1 /\ changes_json.exists)

\* C18: a finished detector process has exit code 0, 1 or 2: 0 exactly
\* when the cycle completed without changes (bootstrap included), 1 exactly
\* when changes were detected and handed over or there was no current
\* schedule, 2 exactly when an exception left main; a sys.exit of main is
\* never turned into 2.
C18_ExitCodes ==
    pc = "exited" =>
        /\ exit_code \in {0, 1, 2}
        /\ exit_code = 2 <=> cycle.raised
        /\ exit_code = 0 <=>
               /\ ~cycle.raised
               /\ cycle.bootstrap \/ (cycle.diffed /\ ~report.has_changes)
        /\ exit_code = 1 <=>
               /\ ~cycle.raised
               /\ \/ cycle.current_all = <<>>
                  \/ /\ cycle.diffed /\ report.has_changes
                     /\ changes_json = [exists |-> TRUE, report |-> report]

\* a cycle that detected changes has left through sys.exit(1)
C18_Witness ==
    /\ pc = "exited"
    /\ exit_code = 1
    /\ cycle.diffed
    /\ Len(report.modified) = 1

(***************************************************************************)
(* SpecHash: create_schedule_hash on a collection and on a permutation of  *)
(* it.                                                                     *)
(***************************************************************************)
MaxHashLen == 3     \* longest collection handed to create_schedule_hash

\* The type texts of HashEntries in the order of Python's str comparison
TypeTexts == <<"Game", "Practice">>

\* (x['date'], x['start_time'], x['type']) < (y['date'], y['start_time'], y['type'])
date_start_type_less(x, y) ==
    \/ date_start_less(x, y)
    \/ /\ x.date = y.date /\ x.start_time = y.start_time /\ x.type # y.type
       /\ TextLess(TypeTexts, x.type, y.type)

\* json.dumps of one value: a str in quotes, float('nan') as NaN
JsonValue(v) == IF v.kind = "nan" THEN "NaN" ELSE "\"" \o v.s \o "\""

\* json.dumps(item, sort_keys=True): the keys in alphabetical order
JsonItem(item) ==
    "{\"date\": " \o JsonValue(item.date)
        \o ", \"end_time\": " \o JsonValue(item.end_time)
        \o ", \"league\": " \o JsonValue(item.league)
        \o ", \"start_time\": " \o JsonValue(item.start_time)
        \o ", \"team\": " \o JsonValue(item.team)
        \o ", \"type\": " \o JsonValue(item.type)
        \o ", \"venue\": " \o JsonValue(item.venue) \o "}"

RECURSIVE JsonItems(_)
JsonItems(seq) ==
    IF seq = <<>> THEN ""
    ELSE IF Len(seq) = 1 THEN JsonItem(seq[1])
    ELSE JsonItem(seq[1]) \o ", " \o JsonItems(Tail(seq))

json_dumps(seq) == "[" \o JsonItems(seq) \o "]"

\* create_schedule_hash: the digest is kept as the text it is taken of (MD5
\* is a function of that text); TypeError when sorted() meets a nan and a
\* text at the place that decides a comparison
create_schedule_hash(seq) ==
    IF \E i, j \in DOMAIN seq :
          \/ date_start_incomparable(seq[i], seq[j])
          \/ /\ seq[i].date = seq[j].date /\ seq[i].start_time = seq[j].start_time
             /\ seq[i].type # seq[j].type
             /\ (seq[i].type.kind = "nan") # (seq[j].type.kind = "nan")
    THEN [status |-> "TypeError", md5_of |-> ""]
    ELSE [status |-> "ok",
          md5_of |-> json_dumps(StableSort(seq,
                        {p \in Range(seq) \X Range(seq) :
                            date_start_type_less(p[1], p[2])}))]

HashEntries ==
    {Entry(S("2024-06-01"), S("17:00"), S("18:00"), S("Game"), S("LeagueA"),
           S("TeamX vs TeamY"), S("VenueY")),
     Entry(S("2024-06-01"), S("17:00"), S("18:00"), S("Game"), S("LeagueB"),
           S("TeamP vs TeamQ"), S("VenueZ")),
     Entry(S("2024-06-01"), S("17:00"), S("18:00"), S("Practice"), S("LeagueA"),
           NaN, S("VenueY")),
     Entry(S("2024-06-01"), S("09:00"), S("10:00"), S("Practice"), S("LeagueA"),
           S("TeamZ"), S("VenueY")),
     Entry(S("2024-06-02"), NaN, S("10:00"), S("Game"), S("LeagueA"),
           S("TBA"), S("VenueY"))}

\* the rearrangements of seq
Rearrangements(seq) ==
    {[i \in DOMAIN seq |-> seq[p[i]]] : p \in Orderings(DOMAIN seq)}

InitHash ==
    /\ \E X \in SeqsUpTo(HashEntries, MaxHashLen) :
          \E P \in Rearrangements(X) : args = <<X, P>>
    /\ result = NoResult
    /\ mon = [pc |-> "off"] /\ unsent = {}
    /\ DiffIdle
    /\ FilterIdle
    /\ CycleIdle

\* result = the fingerprints of the collection and of its permutation
Hash ==
    /\ result.status = "none"
    /\ result' = [status |-> "ok",
                  hashes |-> <<create_schedule_hash(args[1]),
                               create_schedule_hash(args[2])>>]
    /\ UNCHANGED <<args, diffVars, filterVars, cycleVars, monVars>>

NextHash == Hash

SpecHash == InitHash /\ [][NextHash]_vars

\* C19 (as claimed): a collection and any permutation of it have the same
\* canonical serialization and hash, also when entries share (date,
\* start_time, type) and differ in league, team or venue.
C19_HashOrderIndependent ==
    result.status = "ok" => result.hashes[1] = result.hashes[2]

\* the entry of seq that comes last among those with key k
LastWithKey(seq, k) ==
    LET n == Len(seq)
        back == CHOOSE d \in 0..(n - 1) :
                    /\ create_schedule_key(seq[n - d]) = k
                    /\ \A c \in 0..(d - 1) : create_schedule_key(seq[n - c]) # k
    IN  seq[n - back]

\* C20: when entries of one side share a key, the last of them stands for
\* the key: it is the entry reported added or removed, and it is the entry
\* whose team, venue and end_time are compared and carried in the
\* modification triple; no error is raised.
C20_LastDuplicateWins ==
    (changes.status # "none"
        /\ \A item \in Range(old_items) \cup Range(new_items) : ~MissingKey(item)) =>
        /\ changes.status = "ok"
        /\ \A i \in DOMAIN changes.added :
              changes.added[i] =
                  LastWithKey(new_items, create_schedule_key(changes.added[i]))
        /\ \A i \in DOMAIN changes.removed :
              changes.removed[i] =
                  LastWithKey(old_items, create_schedule_key(changes.removed[i]))
        /\ \A k \in KeysOf(old_items) \cap KeysOf(new_items) :
              LET o == LastWithKey(old_items, k)
                  n == LastWithKey(new_items, k)
              IN  /\ (k \in ModifiedKeys(changes)) <=> is_modified(o, n)
                  /\ \A i \in DOMAIN changes.modified :
                        changes.modified[i][1] = k =>
                            changes.modified[i] = <<k, o, n>>

\* the new side holds two entries under one key; the first equals the old
\* entry, the second differs in team and is the one reported
C20_Witness ==
    /\ changes.status = "ok"
    /\ Len(old_items) = 1 /\ Len(new_items) = 2
    /\ new_items[1] = old_items[1]
    /\ create_schedule_key(new_items[2]) = create_schedule_key(new_items[1])
    /\ new_items[2].team # new_items[1].team
    /\ Len(changes.modified) = 1
    /\ changes.modified[1][3] = new_items[2]

C23_SameEntryNotReported ==
    (InCycle /\ cycle.diffed) =>
        \A e \in Range(cycle.snapshot_all) \cap Range(cycle.current_all) :
            e \notin Range(report.added) \cup Range(report.removed)

\* C24 (as claimed): a detector that exits 1 has written, in that run, a
\* change file with has_changes true that holds the report of the cycle.
C24_ExitOneHasFreshChangeFile ==
    (pc = "exited" /\ exit_code = 1) =>
        /\ changes_json.exists
        /\ changes_json.report.has_changes
        /\ cycle.diffed
        /\ changes_json.report = report

\* C26: a cycle that diffs and detects no changes ends with exit code 0 and
\* with the snapshot file and the change file as they were at its start.
C26_NoChangeCycleFrame ==
    (pc = "exited" /\ cycle.diffed /\ ~report.has_changes) =>
        /\ snapshot_csv = cycle.snap0
        /\ changes_json = cycle.chg0
        /\ exit_code = 0

\* a no-change cycle has ended while a snapshot with rows and a change file
\* of an earlier cycle are on disk
C26_Witness ==
    /\ pc = "exited"
    /\ cycle.diffed
    /\ ~report.has_changes
    /\ snapshot_csv.rows # <<>>
    /\ changes_json.exists

(***************************************************************************)
(* SpecMonitor: the change monitor, run after run.  A run starts the       *)
(* scraper, then the detector (the steps of main above), then the          *)
(* notifier, each through run_script.                                      *)
(***************************************************************************)
\* How a subprocess.run call ends: the child exited with a code, the call
\* timed out, or it raised another exception
Exited(code) == [kind |-> "exit", code |-> code]
TimedOut == [kind |-> "timeout", code |-> 0]
RunError == [kind |-> "error", code |-> 0]
NotRunYet == [kind |-> "none", code |-> 0]

\* run_script, lines 28-54: the child's return code, 124 after
\* TimeoutExpired, 1 after any other exception
run_script(outcome) ==
    IF outcome.kind = "exit" THEN outcome.code
    ELSE IF outcome.kind = "timeout" THEN 124
    ELSE 1

\* Schedules the scraper writes in the runs of the monitor: one booking,
\* with one team or another, or nothing
MonRows ==
    {Row("2024-06-03", "18:30:00", "19:30:00", "Practice", "LeagueA", "TeamZ"),
     Row("2024-06-03", "18:30:00", "19:30:00", "Practice", "LeagueA", "TeamW")}

NoRun ==
    [pc |-> "idle", started |-> <<>>, scraper |-> NotRunYet,
     detector |-> NotRunYet, notifier |-> NotRunYet, exit |-> -1]

InitMonitor ==
    /\ mon = NoRun
    /\ unsent = {}
    /\ args = <<>> /\ result = NoResult
    /\ DiffIdle
    /\ FilterIdle
    /\ CycleIdle

\* the detector's process is gone
DetectorGone ==
    /\ pc' = "off"
    /\ current_items' = NotRun
    /\ snapshot_items' = NotRun
    /\ report' = NoChanges
    /\ exit_code' = -1
    /\ cycle' = NoCycle

\* the rest of the monitor's main after the detector's result, lines 89-99
AfterDetector(m, detector_exit) ==
    IF detector_exit = 0 THEN [m EXCEPT !.pc = "done", !.exit = 0]
    ELSE IF detector_exit = 1 THEN [m EXCEPT !.pc = "notify"]
    ELSE [m EXCEPT !.pc = "done", !.exit = 1]

\* lines 73-79: the scraper ran, wrote the current schedule and exited 0
ScraperSucceeds ==
    /\ mon.pc = "idle"
    /\ \E rows \in SeqsUpTo(MonRows, 1) :
          current_csv' = [exists |-> TRUE, rows |-> rows]
    /\ mon' = [mon EXCEPT !.pc = "scraped", !.started = Append(@, "scraper"),
                          !.scraper = Exited(0)]
    /\ UNCHANGED <<clock, snapshot_csv, changes_json, pc, current_items,
                   snapshot_items, report, exit_code, cycle, unsent,
                   diffVars, filterVars, auxVars>>

\* lines 73-77: the scraper exited 1, timed out or could not be run
ScraperFails ==
    /\ mon.pc = "idle"
    /\ \E outcome \in {Exited(1), TimedOut, RunError} :
          /\ run_script(outcome) # 0
          /\ mon' = [mon EXCEPT !.pc = "done", !.started = Append(@, "scraper"),
                                !.scraper = outcome, !.exit = 1]
    /\ UNCHANGED <<cycleVars, unsent, diffVars, filterVars, auxVars>>

\* line 87: the detector's process starts
StartDetector ==
    /\ mon.pc = "scraped"
    /\ mon' = [mon EXCEPT !.pc = "detecting", !.started = Append(@, "detector")]
    /\ pc' = "idle"
    /\ UNCHANGED <<clock, current_csv, snapshot_csv, changes_json, current_items,
                   snapshot_items, report, exit_code, cycle, unsent,
                   diffVars, filterVars, auxVars>>

\* lines 52-54 and 87: subprocess.run raises because the detector cannot
\* be started; run_script returns 1
DetectorRunError ==
    /\ mon.pc = "scraped"
    /\ mon' = AfterDetector([mon EXCEPT !.detector = RunError,
                                 !.started = Append(@, "detector")],
                            run_script(RunError))
    /\ UNCHANGED <<cycleVars, unsent, diffVars, filterVars, auxVars>>

\* lines 49-51: the detector is killed after 120 seconds, wherever it is
DetectorTimeout ==
    /\ mon.pc = "detecting"
    /\ pc \in {"idle", "filtered", "diffed", "written"}
    /\ mon' = AfterDetector([mon EXCEPT !.detector = TimedOut], run_script(TimedOut))
    /\ DetectorGone
    /\ UNCHANGED <<clock, current_csv, snapshot_csv, changes_json, unsent,
                   diffVars, filterVars, auxVars>>

\* lines 87-99: the detector has exited; with exit code 1 after a diff it
\* has handed its report over
DetectorReturns ==
    /\ mon.pc = "detecting"
    /\ pc = "exited"
    /\ mon' = AfterDetector([mon EXCEPT !.detector = Exited(exit_code)],
                            run_script(Exited(exit_code)))
    /\ unsent' = IF cycle.diffed /\ exit_code = 1
                 THEN unsent \cup {report} ELSE unsent
    /\ DetectorGone
    /\ UNCHANGED <<clock, current_csv, snapshot_csv, changes_json,
                   diffVars, filterVars, auxVars>>

\* load_changes: None for a missing file and for one json.load cannot read
load_changes(file) ==
    IF file.exists /\ file.report.status = "ok" THEN file.report ELSE None

\* the report r, once emailed, tells every change of the report u
Covers(r, u) ==
    /\ Range(u.added) \subseteq Range(r.added)
    /\ Range(u.removed) \subseteq Range(r.removed)
    /\ Range(u.modified) \subseteq Range(r.modified)

\* notifier main, lines 223-243, run by line 107 of the monitor: the change
\* file is read and emailed; os.remove then deletes it, or fails silently
NotifierSends ==
    /\ mon.pc = "notify"
    /\ load_changes(changes_json) # None
    /\ load_changes(changes_json).has_changes
    /\ unsent' = {u \in unsent : ~Covers(load_changes(changes_json), u)}
    /\ changes_json' \in {NoChangesFile, changes_json}
    /\ mon' = [mon EXCEPT !.pc = "done", !.started = Append(@, "notifier"),
                          !.notifier = Exited(0), !.exit = 0]
    /\ UNCHANGED <<clock, current_csv, snapshot_csv, pc, current_items,
                   snapshot_items, report, exit_code, cycle,
                   diffVars, filterVars, auxVars>>

\* notifier main, lines 212-226 and 244-245, and lines 49-54 and 109-111 of
\* the monitor: no recipients or credentials, no readable change file, the
\* send fails, or the notifier times out or cannot be run; no mail, the
\* change file stays
NotifierFails ==
    /\ mon.pc = "notify"
    /\ \E outcome \in {Exited(1), TimedOut, RunError} :
          /\ run_script(outcome) # 0
          /\ mon' = [mon EXCEPT !.pc = "done", !.started = Append(@, "notifier"),
                                !.notifier = outcome, !.exit = 1]
    /\ UNCHANGED <<cycleVars, unsent, diffVars, filterVars, auxVars>>

\* the run is over; the next one starts from scratch
MonitorEnd ==
    /\ mon.pc = "done"
    /\ mon' = NoRun
    /\ UNCHANGED <<cycleVars, unsent, diffVars, filterVars, auxVars>>

NextMonitor ==
    \/ ScraperSucceeds
    \/ ScraperFails
    \/ StartDetector
    \/ DetectorRunError
    \/ DetectorTimeout
    \/ DetectorReturns
    \/ LoadCurrent
    \/ Bootstrap
    \/ Detect
    \/ NoChangesExit
    \/ WriteChanges
    \/ WriteChangesFails
    \/ UpdateSnapshot
    \/ NotifierSends
    \/ NotifierFails
    \/ MonitorEnd

\* The monitor is run again and again (cron) and failures pass: a scrape,
\* a step of the detector, a change-file write and a send that are tried
\* again and again succeed at some point, and the detector is then neither
\* killed by the timeout nor lost by run_script
SpecMonitor ==
    /\ InitMonitor
    /\ [][NextMonitor]_vars
    /\ WF_vars(NextMonitor)
    /\ SF_vars(ScraperSucceeds)
    /\ SF_vars(StartDetector)
    /\ SF_vars(LoadCurrent)
    /\ SF_vars(Bootstrap \/ NoChangesExit)
    /\ SF_vars(Detect)
    /\ SF_vars(WriteChanges)
    /\ SF_vars(UpdateSnapshot)
    /\ WF_vars(DetectorReturns)
    /\ SF_vars(NotifierSends)

StageOrder == <<"scraper", "detector", "notifier">>

\* C22 (as claimed): the stages of a run start in the order scraper,
\* detector, notifier; the detector only after the scraper exited 0, the
\* notifier only after the detector exited 1; detector exit 0 ends the run
\* with 0 and any other stage result ends it with 1, no later stage started.
C22_StageOrder ==
    mon.pc # "off" =>
        /\ mon.started = SubSeq(StageOrder, 1, Len(mon.started))
        /\ Len(mon.started) >= 2 => mon.scraper = Exited(0)
        /\ (mon.pc = "notify" \/ Len(mon.started) = 3) => mon.detector = Exited(1)
        /\ mon.pc = "done" =>
              /\ mon.exit \in {0, 1}
              /\ mon.exit = 0 <=>
                     \/ mon.detector = Exited(0)
                     \/ mon.notifier = Exited(0)
              /\ mon.scraper # Exited(0) => Len(mon.started) = 1
              /\ mon.detector # Exited(1) => Len(mon.started) <= 2

\* C25 (as claimed): the changes of a cycle that detected some, and that
\* have not been emailed, are emailed in the end.
C25_NoChangeLost == (unsent # {}) ~> (unsent = {})

=============================================================================
